---- MODULE Spec2Model ----
(***************************************************************************)
(* The outbound queue of a QUIC socket (net/quic/output.c): four pending   *)
(* and in-flight frame lists, the flow-control gate, the transmit          *)
(* scheduler, ack and loss processing and stream purge.                    *)
(*                                                                         *)
(* Every quic_outq_* function is an operator from a socket record (the     *)
(* fields of struct quic_outqueue, the streams' send side, the crypto      *)
(* readiness, the packet-number maps and the packet being built) to the    *)
(* socket record it leaves behind.  The actions at the end apply one entry *)
(* point each to the current state.                                        *)
(***************************************************************************)
EXTENDS Integers, Sequences, FiniteSets, TLC

VARIABLES
    outq,       \* struct quic_outqueue: the four lists and the counters
    streams,    \* stream id -> the send side of struct quic_stream
    crypto,     \* level -> quic_crypto_send_ready()
    route_ok,   \* whether quic_packet_config() finds a route (else it returns < 0)
    pnmap,      \* level -> struct quic_pnmap (next_number, max_pn_acked, loss_ts)
    now,        \* jiffies_to_usecs(jiffies)
    op,         \* the entry point called last, its arguments and what it returned
    sock,       \* struct sock: state, SOCK_DEAD, refcount, lock, sk_write_queue
    work,       \* outq->work and the contexts that run encrypted_tail and the worker
    tx          \* a quic_outq_transmit() call in progress: phase, cursor, socket

vars == <<outq, streams, crypto, route_ok, pnmap, now, op, sock, work, tx>>

----------------------------------------------------------------------------
(* Encryption levels (enum in crypto.h, mirrored by the loss timers of timer.h) *)
QUIC_CRYPTO_APP == 0
QUIC_CRYPTO_INITIAL == 1
QUIC_CRYPTO_HANDSHAKE == 2
Levels == {QUIC_CRYPTO_APP, QUIC_CRYPTO_INITIAL, QUIC_CRYPTO_HANDSHAKE}

(* Bounds of the model *)
NStreams == 1          \* streams 1..NStreams
MaxFrames == 3         \* frames alive at once (pending + in flight)
MaxBytes == 1          \* payload bytes of one stream or datagram frame
MaxOffset == 2         \* bytes one stream may hand to the queue in total
MaxPn == 2             \* packets one level may emit
MaxNow == 1            \* clock ticks
MaxCredit == 2         \* largest max_bytes the peer advertises
MinCredit == 1         \* smallest max_bytes the peer advertises
MaxWindow == 4         \* largest congestion window
NCallers == 2         \* contexts that may be inside quic_outq_encrypted_tail() at once
MaxDgram == 2         \* payload bytes of the datagram in SpecGate
MaxPnGate == 3        \* packets per level in SpecGate
MaxPnLoss == 8        \* packets the App level may emit in SpecLoss
MaxSentCnt == 1       \* path probes counted before a validation
MaxPnTx == 5          \* packets per level in SpecTx
MaxRetry == 2         \* retries of one frame the model follows
MaxRtx == 2           \* calls of quic_outq_transmit_one() without a SACK between
MaxSkb == 3           \* encrypted packets handed to quic_outq_encrypted_tail()

StreamIds == 1..NStreams
NoStream == 0          \* frame->stream == NULL

(* The frame factory (frame.c): len is the wire length, header included *)
FrameHdrLen == 1
(* packet->mss: the room of one packet *)
PacketMss == 3
(* quic_cong_rto(): the congestion controller's retransmission timeout *)
CongRto == 1

Frame(type, level, nbytes, offset, stream) ==
    [type |-> type, level |-> level, bytes |-> nbytes, len |-> nbytes + FrameHdrLen,
     offset |-> offset, stream |-> stream, number |-> 0, transmit_ts |-> 0,
     path_alt |-> 0]

quic_frame_is_dgram(type) == type = "DATAGRAM"
quic_frame_is_stream(type) == type \in {"STREAM", "STREAM_FIN"}
QUIC_STREAM_BIT_FIN(type) == type = "STREAM_FIN"

----------------------------------------------------------------------------
(* list.h *)
(* the one element of a set: Only({F(x) : x \in {v}}) is F applied to the value
   of v, worked out once *)
Only(S) == CHOOSE x \in S : TRUE

InsertBefore(list, i, f) == SubSeq(list, 1, i - 1) \o <<f>> \o SubSeq(list, i, Len(list))
RemoveAt(list, i) == SubSeq(list, 1, i - 1) \o SubSeq(list, i + 1, Len(list))

RECURSIVE SumBytes(_)
SumBytes(list) == IF list = <<>> THEN 0 ELSE Head(list).bytes + SumBytes(Tail(list))

RECURSIVE SumLen(_)
SumLen(list) == IF list = <<>> THEN 0 ELSE Head(list).len + SumLen(Tail(list))

SelectLevel(list, level) == SelectSeq(list, LAMBDA f : f.level = level)

(* The place the "prioritize handshake frames" walk of ctrl_tail and
   transmitted_tail ends at: before the first frame of level 0 when the new
   frame has a level, the tail otherwise. *)
(* the walk left out: every frame goes to the tail *)
PrioritizeMutantPos(list, frame) == Len(list) + 1
PrioritizePos(list, frame) ==
    IF frame.level # 0 /\ \E i \in 1..Len(list) : list[i].level = 0
    THEN CHOOSE i \in 1..Len(list) :
            list[i].level = 0 /\ \A j \in 1..(i - 1) : list[j].level # 0
    ELSE Len(list) + 1

quic_outq_transmitted_tail(s, frame) ==
    [s EXCEPT !.transmitted_list =
        InsertBefore(@, PrioritizePos(@, frame), frame)]

----------------------------------------------------------------------------
(* The packet builder (packet.c), from its contract: config, tail, create,
   flush, set_filter. *)
EmptyPacket == [frames |-> <<>>, len |-> 0, level |-> 0, count |-> 0,
                filter |-> FALSE]

quic_packet_set_filter(s, level) ==
    [s EXCEPT !.packet.filter = TRUE, !.packet.level = level]

(* finalize and emit the packet being built: its frames get the packet's
   number and the time, and move to transmitted_list *)
RECURSIVE PacketMove(_, _, _)
PacketMove(s, frames, number) ==
    IF frames = <<>> THEN s
    ELSE LET f == [Head(frames) EXCEPT !.number = number, !.transmit_ts = s.now]
             s1 == quic_outq_transmitted_tail(s, f)
         IN PacketMove([s1 EXCEPT !.inflight = @ + f.len], Tail(frames), number)

quic_packet_create(s) ==
    IF s.packet.frames = <<>> THEN s
    ELSE LET level == s.packet.level
             s1 == PacketMove(s, s.packet.frames, s.pnmap[level].next_number)
         IN [s1 EXCEPT !.pnmap[level].next_number = @ + 1,
                       !.packet.frames = <<>>,
                       !.packet.len = 0,
                       !.packet.count = @ + 1]

(* 0: go on; > 0: this frame is filtered out; < 0: no packet can be built now *)
quic_packet_config(s, level) ==
    IF s.packet.filter /\ s.packet.level # level THEN [s |-> s, ret |-> 1]
    ELSE IF ~s.route_ok THEN [s |-> s, ret |-> -1]
    ELSE IF s.packet.frames # <<>> /\ s.packet.level # level
         THEN [s |-> [quic_packet_create(s) EXCEPT !.packet.level = level], ret |-> 0]
    ELSE [s |-> [s EXCEPT !.packet.level = level], ret |-> 0]

(* append frame i of the pending list to the packet being built; 0 when the
   packet has to be emitted first.  A frame always fits an empty packet. *)
(* a builder that has room for a frame header only *)
quic_packet_tailMutant(s, list, i) ==
    IF s.packet.len + s[list][i].len > FrameHdrLen
    THEN [s |-> s, ret |-> 0]
    ELSE [s |-> [s EXCEPT ![list] = RemoveAt(@, i),
                          !.packet.frames = Append(@, s[list][i]),
                          !.packet.len = @ + s[list][i].len,
                          !.packed = Append(@, s[list][i])],
          ret |-> s[list][i].len]

quic_packet_tail(s, list, i) ==
    LET frame == s[list][i] IN
    IF s.packet.frames # <<>> /\ s.packet.len + frame.len > PacketMss
    THEN [s |-> s, ret |-> 0]
    ELSE [s |-> [s EXCEPT ![list] = RemoveAt(@, i),
                          !.packet.frames = Append(@, frame),
                          !.packet.len = @ + frame.len,
                          !.packed = Append(@, frame),
                          !.ungated = @ \/ (quic_frame_is_stream(frame.type)
                                             /\ s.data_inflight + frame.bytes
                                                    > s.window)],
          ret |-> frame.len]

(* emit a partial packet; returns the number of packets sent since the last flush *)
quic_packet_flush(s) ==
    LET s1 == quic_packet_create(s)
    IN [s |-> [s1 EXCEPT !.packet = EmptyPacket], ret |-> s1.packet.count]

----------------------------------------------------------------------------
(* output.c.  e is what the environment answers during the call:
   alloc_sdb, alloc_db: whether quic_frame_create() of that frame succeeds;
   alloc_frame: whether quic_frame_create() of any other frame succeeds;
   event_ok: whether quic_inq_event_recv() queues the event (returns 0);
   window: the window the congestion controller has after an update;
   freed_bytes: what a read of ->bytes of a freed frame finds to be non-zero. *)
RECURSIVE transmit_ctrl_loop(_, _)
transmit_ctrl_loop(s, i) ==
    IF i > Len(s.control_list) THEN s
    ELSE LET frame == s.control_list[i] IN
         IF ~s.send_ready[frame.level] THEN s
         ELSE LET c == quic_packet_config(s, frame.level) IN
              IF c.ret > 0 THEN transmit_ctrl_loop(c.s, i + 1)   \* filtered out this frame
              ELSE IF c.ret < 0 THEN c.s
              ELSE LET t == quic_packet_tail(c.s, "control_list", i) IN
                   IF t.ret # 0
                   THEN transmit_ctrl_loop(t.s, i)   \* packed: its successor is now at i
                   ELSE transmit_ctrl_loop(quic_packet_create(t.s), i)   \* go back

quic_outq_transmit_ctrl(s) == transmit_ctrl_loop(s, 1)

RECURSIVE transmit_dgram_loop(_, _)
transmit_dgram_loop(s, i) ==
    IF i > Len(s.datagram_list) THEN s
    ELSE LET frame == s.datagram_list[i] IN
         IF s.data_inflight + frame.len > s.window THEN s
         ELSE LET c == quic_packet_config(s, s.data_level) IN
              IF c.ret > 0 THEN transmit_dgram_loop(c.s, i + 1)
              ELSE IF c.ret < 0 THEN c.s
              ELSE LET t == quic_packet_tail(c.s, "datagram_list", i) IN
                   IF t.ret # 0
                   THEN transmit_dgram_loop(
                            [t.s EXCEPT !.data_inflight = @ + frame.bytes], i)
                   ELSE transmit_dgram_loop(quic_packet_create(t.s), i)

quic_outq_transmit_dgram(s) ==
    IF ~s.send_ready[s.data_level] THEN s ELSE transmit_dgram_loop(s, 1)

(* ctrl_tail without the walk: plain list_add_tail to control_list *)
FrameCtrlTailMutant(s, frame) ==
    [s EXCEPT !.control_list = Append(@, frame)]
(* the list insertion of quic_outq_ctrl_tail (the part before "if (!cork)") *)
FrameCtrlTail(s, frame) ==
    [s EXCEPT !.control_list = InsertBefore(@, PrioritizePos(@, frame), frame)]

(* the stream gate without the frame's own bytes *)
StreamGateMutant(s, frame) ==
    s.stream[frame.stream].bytes > s.stream[frame.stream].max_bytes
(* "if (stream->send.bytes + len > stream->send.max_bytes)" *)
StreamGate(s, frame) ==
    s.stream[frame.stream].bytes + frame.bytes > s.stream[frame.stream].max_bytes

(* quic_outq_flow_control() up to "if (nframe)": the gates and the blocked
   frames; nframe tells whether the last quic_frame_create() gave a frame *)
flow_control_gate(s, frame, e) ==
    LET len == frame.bytes
        id == frame.stream
        congested == s.data_inflight + len > s.window
        \* send flow control: the stream
        sgate == StreamGate(s, frame)
        semit == sgate /\ ~s.stream[id].data_blocked
                       /\ s.stream[id].last_max_bytes < s.stream[id].max_bytes
        nframe1 == semit /\ e.alloc_sdb
        s1 == IF ~semit THEN s
              ELSE LET q == IF nframe1
                            THEN FrameCtrlTail(s, Frame("STREAM_DATA_BLOCKED",
                                                       QUIC_CRYPTO_APP, 0, 0, id))
                            ELSE s
                   IN [q EXCEPT !.stream[id].last_max_bytes = s.stream[id].max_bytes,
                                !.stream[id].data_blocked = TRUE]
        \* send flow control: the connection
        cgate == s1.bytes + len > s1.max_bytes
        cemit == cgate /\ ~s1.data_blocked /\ s1.last_max_bytes < s1.max_bytes
        nframe2 == IF cemit THEN e.alloc_db ELSE nframe1
        s2 == IF ~cemit THEN s1
              ELSE LET q == IF nframe2
                            THEN FrameCtrlTail(s1, Frame("DATA_BLOCKED",
                                                        QUIC_CRYPTO_APP, 0, 0, NoStream))
                            ELSE s1
                   IN [q EXCEPT !.last_max_bytes = s1.max_bytes,
                                !.data_blocked = TRUE]
    IN [s |-> s2, ret |-> congested \/ sgate \/ cgate, nframe |-> nframe2]

quic_outq_flow_control(s, frame, e) ==
    Only({[s |-> IF g.nframe THEN quic_outq_transmit_ctrl(g.s) ELSE g.s, ret |-> g.ret] :
          g \in {flow_control_gate(s, frame, e)}})

RECURSIVE transmit_stream_loop(_, _, _)
transmit_stream_loop(s, i, e) ==
    IF i > Len(s.stream_list) THEN s
    ELSE LET frame == s.stream_list[i]
             level == s.data_level
             fc == IF level = 0 THEN quic_outq_flow_control(s, frame, e)
                   ELSE [s |-> s, ret |-> FALSE]
         IN
         IF fc.ret THEN fc.s
         ELSE LET c == quic_packet_config(fc.s, level) IN
              IF c.ret > 0 THEN transmit_stream_loop(c.s, i + 1, e)
              ELSE IF c.ret < 0 THEN c.s
              ELSE LET t == quic_packet_tail(c.s, "stream_list", i) IN
                   IF t.ret # 0
                   THEN transmit_stream_loop(
                            [t.s EXCEPT !.stream[frame.stream].frags = @ + 1,
                                        !.stream[frame.stream].bytes = @ + frame.bytes,
                                        !.bytes = @ + frame.bytes,
                                        !.data_inflight = @ + frame.bytes], i, e)
                   ELSE transmit_stream_loop(quic_packet_create(t.s), i, e)

quic_outq_transmit_stream(s, e) ==
    IF ~s.send_ready[s.data_level] THEN s ELSE transmit_stream_loop(s, 1, e)

(* pack and transmit frames from outqueue; returns quic_packet_flush() *)
quic_outq_transmit(s, e) ==
    Only({quic_packet_flush(s3) :
          s3 \in {quic_outq_transmit_stream(s2, e) :
                  s2 \in {quic_outq_transmit_dgram(s1) :
                          s1 \in {quic_outq_transmit_ctrl(s0) : s0 \in {s}}}}})

(* The loops of quic_outq_transmit() one iteration at a time.  An iteration
   answers the socket, the cursor and what it did: "pack" (the frame went
   into the packet, its successor is at the cursor), "skip" (continue),
   "retry" (quic_packet_create(), then tmp = frame) or "end" (the loop or the
   function is left) *)
Iter(s, i, kind) == [s |-> s, i |-> i, kind |-> kind]

transmit_ctrl_iter(s, i) ==
    IF i > Len(s.control_list) THEN Iter(s, i, "end")
    ELSE IF ~s.send_ready[s.control_list[i].level] THEN Iter(s, i, "end")
    ELSE LET c == quic_packet_config(s, s.control_list[i].level) IN
         IF c.ret > 0 THEN Iter(c.s, i + 1, "skip")
         ELSE IF c.ret < 0 THEN Iter(c.s, i, "end")
         ELSE LET t == quic_packet_tail(c.s, "control_list", i) IN
              IF t.ret # 0 THEN Iter(t.s, i, "pack")
              ELSE Iter(quic_packet_create(t.s), i, "retry")

transmit_dgram_iter(s, i) ==
    IF i > Len(s.datagram_list) THEN Iter(s, i, "end")
    ELSE IF s.data_inflight + s.datagram_list[i].len > s.window THEN Iter(s, i, "end")
    ELSE LET c == quic_packet_config(s, s.data_level) IN
         IF c.ret > 0 THEN Iter(c.s, i + 1, "skip")
         ELSE IF c.ret < 0 THEN Iter(c.s, i, "end")
         ELSE LET t == quic_packet_tail(c.s, "datagram_list", i) IN
              IF t.ret # 0
              THEN Iter([t.s EXCEPT !.data_inflight = @ + s.datagram_list[i].bytes],
                        i, "pack")
              ELSE Iter(quic_packet_create(t.s), i, "retry")

(* the stream loop's iteration after quic_outq_flow_control() has answered *)
transmit_stream_iter(s, i, blocked) ==
    IF blocked THEN Iter(s, i, "end")
    ELSE LET c == quic_packet_config(s, s.data_level) IN
         IF c.ret > 0 THEN Iter(c.s, i + 1, "skip")
         ELSE IF c.ret < 0 THEN Iter(c.s, i, "end")
         ELSE LET t == quic_packet_tail(c.s, "stream_list", i)
                  frame == s.stream_list[i]
              IN IF t.ret # 0
                 THEN Iter([t.s EXCEPT !.stream[frame.stream].frags = @ + 1,
                                       !.stream[frame.stream].bytes = @ + frame.bytes,
                                       !.bytes = @ + frame.bytes,
                                       !.data_inflight = @ + frame.bytes], i, "pack")
                 ELSE Iter(quic_packet_create(t.s), i, "retry")

(* the phase that follows: each data phase returns at once when the data
   level has no keys *)
EnterStream(s) == IF ~s.send_ready[s.data_level] THEN "flush" ELSE "stream"
EnterDgram(s) == IF ~s.send_ready[s.data_level] THEN EnterStream(s) ELSE "dgram"

quic_outq_stream_tail(s, frame, cork, e) ==
    LET id == frame.stream
        st0 == s.stream[id].state
        st1 == IF st0 = "READY" THEN "SEND" ELSE st0
        st2 == IF QUIC_STREAM_BIT_FIN(frame.type) /\ st1 = "SEND" THEN "SENT" ELSE st1
        s1 == [s EXCEPT !.stream[id].state = st2,
                        !.stream_list = Append(@, frame)]
    IN IF ~cork THEN quic_outq_transmit(s1, e).s ELSE s1

quic_outq_dgram_tail(s, frame, cork, e) ==
    LET s1 == [s EXCEPT !.datagram_list = Append(@, frame)]
    IN IF ~cork THEN quic_outq_transmit(s1, e).s ELSE s1

quic_outq_ctrl_tail(s, frame, cork, e) ==
    LET s1 == FrameCtrlTail(s, frame)
    IN IF ~cork THEN quic_outq_transmit(s1, e).s ELSE s1

(* quic_outq_transmit_close(): nothing without an error code or when the
   CONNECTION_CLOSE event is not queued; otherwise the close frame, if it can
   be created, is sent at once and the socket becomes CLOSED *)
quic_outq_transmit_close(s, type, errcode, level, e) ==
    IF errcode = 0 THEN s
    ELSE IF ~e.event_ok THEN s
    ELSE [(IF e.alloc_frame
           THEN quic_outq_ctrl_tail([s EXCEPT !.close_errcode = errcode,
                                              !.close_frame = type],
                                    Frame("CONNECTION_CLOSE", level, 0, 0, NoStream),
                                    FALSE, e)
           ELSE [s EXCEPT !.close_errcode = errcode, !.close_frame = type])
          EXCEPT !.sk_state = "CLOSED"]

----------------------------------------------------------------------------
(* quic_pnmap_set_max_pn_acked() (pnmap.h) keeps the largest number acked *)
quic_pnmap_set_max_pn_acked(s, level, number) ==
    IF s.pnmap[level].max_pn_acked >= number THEN s
    ELSE [s EXCEPT !.pnmap[level].max_pn_acked = number]

(* the unlink without "outq->data_inflight -= frame->bytes" *)
SackUnlinkMutant(s, i) ==
    LET frame == s.transmitted_list[i]
        s1 == quic_pnmap_set_max_pn_acked(s, frame.level, frame.number)
    IN [s1 EXCEPT !.acked_bytes = @ + frame.bytes,
                  !.inflight = @ - frame.len,
                  !.transmitted_list = RemoveAt(@, i)]
(* the "unlink:" label of quic_outq_transmitted_sack for transmitted_list[i] *)
SackUnlink(s, i) ==
    LET frame == s.transmitted_list[i]
        s1 == quic_pnmap_set_max_pn_acked(s, frame.level, frame.number)
    IN [s1 EXCEPT !.acked_bytes = @ + frame.bytes,
                  !.data_inflight = @ - frame.bytes,
                  !.inflight = @ - frame.len,
                  !.transmitted_list = RemoveAt(@, i)]

SackRefusedMutant(s, id) == s

(* the STREAM_UPDATE event was not queued: the count taken off is put back *)
SackRefused(s, id) == [s EXCEPT !.stream[id].frags = @ + 1]

SackStopMutant(frame, smallest) == frame.number <= smallest

(* the reverse walk ends at the first frame of the level below the range *)
SackStop(frame, smallest) == frame.number < smallest

(* one frame of the reverse walk: "skip" (continue), "stop" (break), or the
   state after the frame's effects, to be unlinked or (event refused) skipped *)
RECURSIVE sack_loop(_, _, _, _, _, _)
sack_loop(s, i, level, largest, smallest, e) ==
    IF i = 0 THEN s
    ELSE LET frame == s.transmitted_list[i]
             id == frame.stream
             continue(q) == sack_loop(q, i - 1, level, largest, smallest, e)
             unlink(q) == sack_loop(SackUnlink(q, i), i - 1, level, largest, smallest, e)
         IN
         IF level # frame.level THEN continue(s)
         ELSE IF frame.number > largest THEN continue(s)
         ELSE IF SackStop(frame, smallest) THEN s
         ELSE IF frame.bytes # 0
              THEN IF id = NoStream THEN unlink(s)
                   ELSE LET s1 == [s EXCEPT !.stream[id].frags = @ - 1] IN
                        IF s1.stream[id].frags # 0 \/ s1.stream[id].state # "SENT"
                        THEN unlink(s1)
                        ELSE IF ~e.event_ok
                             THEN continue(SackRefused(s1, id))
                             ELSE unlink([s1 EXCEPT !.stream[id].state = "RECVD"])
         ELSE IF frame.type = "RESET_STREAM"
              THEN IF ~e.event_ok THEN continue(s)
                   ELSE unlink([s EXCEPT !.stream[id].state = "RESET_RECVD"])
         ELSE IF frame.type = "STREAM_DATA_BLOCKED"
              THEN unlink([s EXCEPT !.stream[id].data_blocked = FALSE])
         ELSE IF frame.type = "DATA_BLOCKED"
              THEN unlink([s EXCEPT !.data_blocked = FALSE])
         ELSE unlink(s)

(* the path MTU probe is not being confirmed: quic_path_pl_confirm() is false *)
quic_outq_transmitted_sack(s, level, largest, smallest, e) ==
    LET s1 == sack_loop([s EXCEPT !.acked_bytes = 0],
                        Len(s.transmitted_list), level, largest, smallest, e)
        s2 == [s1 EXCEPT !.rtx_count = 0]
    IN IF s2.acked_bytes # 0 THEN [s2 EXCEPT !.window = e.window] ELSE s2

(* where retransmit_one's walk of the pending list puts the frame *)
RECURSIVE RetransmitPos(_, _, _)
RetransmitPos(list, frame, i) ==
    IF i > Len(list) THEN i
    ELSE LET pos == list[i] IN
         IF frame.level < pos.level THEN RetransmitPos(list, frame, i + 1)
         ELSE IF frame.level > pos.level THEN i
         ELSE IF pos.offset = 0 \/ frame.offset < pos.offset THEN i
         ELSE RetransmitPos(list, frame, i + 1)

(* put the timeout frame back to the corresponding outqueue *)
quic_outq_retransmit_one(s, frame) ==
    IF frame.bytes # 0
    THEN [s EXCEPT !.stream[frame.stream].frags = @ - 1,
                   !.stream[frame.stream].bytes = @ - frame.bytes,
                   !.bytes = @ - frame.bytes,
                   !.stream_list = InsertBefore(@, RetransmitPos(@, frame, 1), frame)]
    ELSE [s EXCEPT !.control_list = InsertBefore(@, RetransmitPos(@, frame, 1), frame)]

(* "this frame is not yet lost": the walk stops here *)
RetransmitMarkStopsMutant(s, frame, level, immediate) ==
    ~immediate /\ frame.transmit_ts + CongRto > s.now

RetransmitMarkStops(s, frame, level, immediate) ==
    /\ ~immediate
    /\ frame.transmit_ts + CongRto > s.now
    /\ frame.number + 6 > s.pnmap[level].max_pn_acked

(* the bits of frame->path_alt (path.h) and the configured probe timeout *)
QUIC_PATH_ALT_SRC == 1
QUIC_PATH_ALT_DST == 2
ProbeTimeout == 3

(* pa & ~bit, for a single bit *)
ClearBitMutant(pa, bit) == 0
ClearBit(pa, bit) == IF (pa \div bit) % 2 = 1 THEN pa - bit ELSE pa

ClearPathAlt(list, bit) ==
    [i \in 1..Len(list) |-> [list[i] EXCEPT !.path_alt = ClearBit(@, bit)]]

(* quic_outq_validate_path(): sk is the socket record with its paths and the
   packet's ecn_probes, local is quic_path_udp_bind(path) *)
quic_outq_validate_path(s, sk, frame, local, e) ==
    IF ~e.event_ok THEN [s |-> s, sk |-> sk, frame |-> frame]
    ELSE [s |-> [s EXCEPT
                   !.timers = @ \o <<[timer |-> "PATH", call |-> "stop"],
                                     [timer |-> "PATH", call |-> "reset",
                                      timeout |-> ProbeTimeout]>>,
                   !.control_list =
                       ClearPathAlt(@, IF local THEN QUIC_PATH_ALT_SRC
                                       ELSE QUIC_PATH_ALT_DST),
                   !.transmitted_list =
                       ClearPathAlt(@, IF local THEN QUIC_PATH_ALT_SRC
                                       ELSE QUIC_PATH_ALT_DST)],
          sk |-> IF local
                 THEN [sk EXCEPT !.path.src.active = 1 - @,
                                 !.path.src.sent_cnt = 0,
                                 !.ecn_probes = 0]
                 ELSE [sk EXCEPT !.path.dst.sent_cnt = 0,
                                 !.ecn_probes = 0],
          frame |-> [frame EXCEPT
                       !.path_alt = ClearBit(@, IF local THEN QUIC_PATH_ALT_SRC
                                                ELSE QUIC_PATH_ALT_DST)]]

(* the walk of quic_outq_retransmit_mark; s.count and s.wfree are its locals
   count and bytes, s.freed_read tells that frame->bytes was read after
   quic_frame_free(frame) *)
RECURSIVE retransmit_mark_loop(_, _, _, _, _)
retransmit_mark_loop(s, i, level, immediate, e) ==
    IF i > Len(s.transmitted_list) THEN s
    ELSE LET frame == s.transmitted_list[i] IN
         IF level # frame.level THEN retransmit_mark_loop(s, i + 1, level, immediate, e)
         ELSE IF RetransmitMarkStops(s, frame, level, immediate)
              THEN [s EXCEPT !.pnmap[level].loss_ts = frame.transmit_ts + CongRto]
         ELSE LET s1 == [s EXCEPT !.data_inflight = @ - frame.bytes,
                                  !.inflight = @ - frame.len,
                                  !.transmitted_list = RemoveAt(@, i)]
                  s2 == IF quic_frame_is_dgram(frame.type)
                        THEN [s1 EXCEPT !.wfree = @ + frame.bytes,   \* and freed,
                                        !.freed_read = TRUE]       \* then read below
                        ELSE [quic_outq_retransmit_one(s1, frame) EXCEPT !.count = @ + 1]
                  \* "if (frame->bytes)": of a freed frame when it was a datagram
                  hasbytes == IF quic_frame_is_dgram(frame.type) THEN e.freed_bytes
                              ELSE frame.bytes # 0
                  s3 == IF hasbytes THEN [s2 EXCEPT !.window = e.window] ELSE s2
              IN retransmit_mark_loop(s3, i, level, immediate, e)

(* quic_pnmap_inflight() (pnmap.h): the bytes of the level's packets in
   flight, as long as every frame leaving transmitted_list is reported *)
quic_pnmap_inflight(s, level) == SumLen(SelectLevel(s.transmitted_list, level))

(* quic_outq_update_loss_timer(): the timer of the level is stopped when
   nothing is waiting for loss detection and nothing is in flight, else it is
   reduced to the loss time or the probe timeout.  Only the call made to the
   timer is kept, not its duration. *)
quic_outq_update_loss_timer(s, level) ==
    IF s.pnmap[level].loss_ts # 0
    THEN [s EXCEPT !.timers = Append(@, [timer |-> level, call |-> "reduce"])]
    ELSE IF quic_pnmap_inflight(s, level) = 0
    THEN [s EXCEPT !.timers = Append(@, [timer |-> level, call |-> "stop"])]
    ELSE [s EXCEPT !.timers = Append(@, [timer |-> level, call |-> "reduce"])]

quic_outq_retransmit_mark(s, level, immediate, e) ==
    Only({quic_outq_update_loss_timer(q, level) :
          q \in {retransmit_mark_loop([s EXCEPT !.pnmap[level].loss_ts = 0,
                                                !.count = 0, !.wfree = 0],
                                      1, level, immediate, e)}})

(* quic_outq_transmit_one(), from its end to its start.  trace keeps what each
   step of the call answered. *)
transmit_one_out(s, level) ==
    quic_outq_update_loss_timer([s EXCEPT !.rtx_count = @ + 1], level)

transmit_one_ping(s, level, e) ==
    IF e.alloc_frame
    THEN Only({transmit_one_out(q, level) :
               q \in {quic_outq_ctrl_tail([s EXCEPT !.trace = Append(@, <<"ping", level>>)],
                                          Frame("PING", level, 0, 0, NoStream),
                                          FALSE, e)}})
    ELSE transmit_one_out(s, level)

transmit_one_traced(s, what, ret) == [s EXCEPT !.trace = Append(@, <<what, ret>>)]

transmit_one_retry(r, level, e) ==
    IF r.ret # 0
    THEN transmit_one_out(transmit_one_traced(r.s, "transmit", r.ret), level)
    ELSE transmit_one_ping(transmit_one_traced(r.s, "transmit", r.ret), level, e)

transmit_one_markMutant(m, level, e) ==
    IF m.count # 0
    THEN Only({transmit_one_retry(r, level, e) :
               r \in {quic_outq_transmit(
                          quic_packet_set_filter(
                              transmit_one_traced(m, "mark", m.count), level), e)}})
    ELSE transmit_one_out(transmit_one_traced(m, "mark", m.count), level)

transmit_one_mark(m, level, e) ==
    IF m.count # 0
    THEN Only({transmit_one_retry(r, level, e) :
               r \in {quic_outq_transmit(
                          quic_packet_set_filter(
                              transmit_one_traced(m, "mark", m.count), level), e)}})
    ELSE transmit_one_ping(transmit_one_traced(m, "mark", m.count), level, e)

transmit_one_first(r, level, e) ==
    IF r.ret # 0
    THEN transmit_one_out(transmit_one_traced(r.s, "transmit", r.ret), level)
    ELSE Only({transmit_one_mark(m, level, e) :
               m \in {quic_outq_retransmit_mark(
                          transmit_one_traced(r.s, "transmit", r.ret),
                          level, FALSE, e)}})

quic_outq_transmit_one(s, level, e) ==
    Only({transmit_one_first(r, level, e) :
          r \in {quic_outq_transmit(quic_packet_set_filter(s, level), e)}})

RECURSIVE retransmit_list_loop(_, _)
retransmit_list_loop(s, head) ==
    IF s[head] = <<>> THEN s
    ELSE LET frame == Head(s[head])
             s1 == [s EXCEPT ![head] = Tail(@),          \* list_del
                             !.data_inflight = @ - frame.bytes]
         IN IF quic_frame_is_dgram(frame.type)
            THEN retransmit_list_loop([s1 EXCEPT !.wfree = @ + frame.bytes], head)
            ELSE retransmit_list_loop(quic_outq_retransmit_one(s1, frame), head)

(* head names the list handed in *)
quic_outq_retransmit_list(s, head) ==
    retransmit_list_loop([s EXCEPT !.wfree = 0], head)

quic_outq_stream_purge(s, id) ==
    LET gone == SelectSeq(s.transmitted_list, LAMBDA f : f.stream = id)
        pend == SelectSeq(s.stream_list, LAMBDA f : f.stream = id)
    IN [s EXCEPT !.data_inflight = @ - SumBytes(gone),
                 !.inflight = @ - SumLen(gone),
                 !.transmitted_list = SelectSeq(@, LAMBDA f : f.stream # id),
                 !.stream_list = SelectSeq(@, LAMBDA f : f.stream # id),
                 !.wfree = SumBytes(gone) + SumBytes(pend)]

(* quic_outq_list_purge(): every frame is unlinked and freed, the walk holds
   the next frame before it frees one *)
quic_outq_list_purge(s, list) ==
    [s EXCEPT ![list] = <<>>, !.wfree = @ + SumBytes(s[list])]

quic_outq_free(s) ==
    quic_outq_list_purge(
        quic_outq_list_purge(
            quic_outq_list_purge(
                quic_outq_list_purge(s, "transmitted_list"),
                "datagram_list"),
            "control_list"),
        "stream_list")

----------------------------------------------------------------------------
(* The state machine *)
Windows == {1, MaxWindow}

StreamInit(credit) == [state |-> "READY", bytes |-> 0, max_bytes |-> credit,
               last_max_bytes |-> 0, data_blocked |-> FALSE, frags |-> 0,
               offset |-> 0]

PnmapInit == [next_number |-> 0, max_pn_acked |-> 0, loss_ts |-> 0]


Env == [alloc_sdb : BOOLEAN, alloc_db : BOOLEAN, alloc_frame : BOOLEAN,
        event_ok : BOOLEAN, window : Windows, freed_bytes : BOOLEAN]
(* the answers of a call that asks for none of them *)
Quiet == [alloc_sdb |-> TRUE, alloc_db |-> TRUE, alloc_frame |-> TRUE, event_ok |-> TRUE,
          window |-> MaxWindow, freed_bytes |-> FALSE]
AllocEnv == {e \in Env : e.alloc_frame /\ e.event_ok /\ e.window = MaxWindow
                         /\ ~e.freed_bytes}

(* the last call: its name, arguments, return value, the frames it packed and
   what its environment answered *)
NoOp == [name |-> "init", arg |-> <<>>, ret |-> 0, packed |-> <<>>, env |-> Quiet,
         ungated |-> FALSE, timers |-> <<>>, freed_read |-> FALSE]

(* no quic_outq_transmit() call is in progress *)
TxIdle == [pc |-> "idle", last |-> "none", retried |-> 0]

(* an established socket with one reference, unlocked, nothing queued for the
   worker *)
PathInit == [active |-> 0, sent_cnt |-> 0]

SockInit ==
    [state |-> "ESTABLISHED", dead |-> FALSE, refcnt |-> 1, lock |-> "free",
     write_queue |-> <<>>,
     path |-> [src |-> PathInit, dst |-> PathInit], ecn_probes |-> 0]

Callers == 1..NCallers

(* outq->work idle and every caller of encrypted_tail outside the function.
   pending: the work is queued and has not started; pc: where the worker is;
   skb: the packet the worker holds; tail[c]: where caller c is; queued: packets
   put on sk_write_queue so far (the n-th is packet n); done: what became of
   the packets taken off the queue, in that order *)
WorkInit ==
    [pending |-> FALSE, pc |-> "idle", skb |-> 0,
     tail |-> [c \in Callers |-> "out"], queued |-> 0, done |-> <<>>]

(* after quic_outq_init() and quic_outq_set_param(): empty lists, the peer's
   initial credit *)
InitWith(credit) ==
    /\ outq = [control_list |-> <<>>, stream_list |-> <<>>, datagram_list |-> <<>>,
               transmitted_list |-> <<>>, data_inflight |-> 0, inflight |-> 0,
               bytes |-> 0, max_bytes |-> credit, last_max_bytes |-> 0,
               data_blocked |-> FALSE, window |-> MaxWindow, rtx_count |-> 0,
               data_level |-> QUIC_CRYPTO_APP, close_errcode |-> 0,
               close_frame |-> "NONE"]
    /\ streams = [id \in StreamIds |-> StreamInit(credit)]
    /\ crypto = [l \in Levels |-> TRUE]
    /\ route_ok = TRUE
    /\ pnmap = [l \in Levels |-> PnmapInit]
    /\ now = 0
    /\ op = NoOp
    /\ sock = SockInit
    /\ work = WorkInit
    /\ tx = TxIdle

(* the socket as the functions see it; nothing is being packed between calls *)
Sk ==
    [control_list |-> outq.control_list, stream_list |-> outq.stream_list,
     datagram_list |-> outq.datagram_list, transmitted_list |-> outq.transmitted_list,
     data_inflight |-> outq.data_inflight, inflight |-> outq.inflight,
     bytes |-> outq.bytes, max_bytes |-> outq.max_bytes,
     last_max_bytes |-> outq.last_max_bytes, data_blocked |-> outq.data_blocked,
     window |-> outq.window, rtx_count |-> outq.rtx_count,
     data_level |-> outq.data_level, close_errcode |-> outq.close_errcode,
     close_frame |-> outq.close_frame,
     stream |-> streams, send_ready |-> crypto, route_ok |-> route_ok,
     pnmap |-> pnmap, now |-> now, sk_state |-> sock.state,
     packet |-> EmptyPacket, packed |-> <<>>, ungated |-> FALSE, timers |-> <<>>,
     trace |-> <<>>, freed_read |-> FALSE,
     acked_bytes |-> 0, count |-> 0,
     wfree |-> 0]

NFrames(s) == Len(s.control_list) + Len(s.stream_list) + Len(s.datagram_list)
              + Len(s.transmitted_list)

(* what quic_packet_tail() took, in the order it took it *)
PackedLog(s) == [i \in 1..Len(s.packed) |->
                    [type |-> s.packed[i].type, level |-> s.packed[i].level]]

(* the state the call leaves, within the bounds of the model *)
(* the call has run: the socket is as the function left it; at most maxpn
   packets are sent at a level *)
CommitState(s, name, arg, ret, e, maxpn) ==
    /\ \A l \in Levels : s.pnmap[l].next_number <= maxpn
    /\ outq' = [f \in DOMAIN outq |-> s[f]]
    /\ streams' = s.stream
    /\ pnmap' = s.pnmap
    /\ op' = [name |-> name, arg |-> arg, ret |-> ret, packed |-> PackedLog(s),
              env |-> e, ungated |-> s.ungated, timers |-> s.timers,
              freed_read |-> s.freed_read]
    /\ sock' = [sock EXCEPT !.state = s.sk_state]
    /\ UNCHANGED <<crypto, route_ok, now, work>>

CommitUpTo(s, name, arg, ret, e, maxpn) ==
    /\ CommitState(s, name, arg, ret, e, maxpn)
    /\ UNCHANGED tx

Commit(s, name, arg, ret, e) == CommitUpTo(s, name, arg, ret, e, MaxPn)

StreamTail(id, n, fin, cork, e) ==
    /\ NFrames(Sk) < MaxFrames
    /\ streams[id].state \in {"READY", "SEND"}
    /\ streams[id].offset + n <= MaxOffset
    /\ n = 0 => fin          \* an empty STREAM frame is made to carry FIN only
    /\ LET frame == Frame(IF fin THEN "STREAM_FIN" ELSE "STREAM", outq.data_level,
                          n, streams[id].offset, id)
           s0 == [Sk EXCEPT !.stream[id].offset = @ + n]
       IN Commit(quic_outq_stream_tail(s0, frame, cork, e),
                 "stream_tail", <<id, n, fin, cork>>, 0, e)

DgramTail(n, cork, e) ==
    /\ NFrames(Sk) < MaxFrames
    /\ Commit(quic_outq_dgram_tail(Sk, Frame("DATAGRAM", outq.data_level, n, 0, NoStream),
                                   cork, e),
              "dgram_tail", <<n, cork>>, 0, e)

CtrlTail(type, level, cork, e) ==
    /\ NFrames(Sk) < MaxFrames
    /\ Commit(quic_outq_ctrl_tail(Sk, Frame(type, level, 0, 0, NoStream), cork, e),
              "ctrl_tail", <<type, level, cork>>, 0, e)

TransmitClose(type, errcode, level, e) ==
    /\ NFrames(Sk) < MaxFrames
    /\ Commit(quic_outq_transmit_close(Sk, type, errcode, level, e),
              "transmit_close", <<type, errcode, level>>, 0, e)

Transmit(e) ==
    LET r == quic_outq_transmit(Sk, e)
    IN Commit(r.s, "transmit", <<>>, r.ret, e)

TransmittedSack(level, largest, smallest, e) ==
    /\ smallest <= largest
    /\ largest < pnmap[level].next_number
    /\ LET s == quic_outq_transmitted_sack(Sk, level, largest, smallest, e)
       IN Commit(s, "transmitted_sack", <<level, largest, smallest>>,
                 s.acked_bytes, e)

RetransmitMark(level, immediate, e) ==
    LET s == quic_outq_retransmit_mark(Sk, level, immediate, e)
    IN Commit(s, "retransmit_mark", <<level, immediate>>, s.count, e)

(* the application resets a stream: the frame factory marks the stream
   RESET_SENT and the RESET_STREAM frame is queued *)
ResetStream(id, cork, e) ==
    /\ NFrames(Sk) < MaxFrames
    /\ streams[id].state \in {"READY", "SEND", "SENT"}
    /\ Commit(quic_outq_ctrl_tail([Sk EXCEPT !.stream[id].state = "RESET_SENT"],
                                  Frame("RESET_STREAM", QUIC_CRYPTO_APP, 0, 0, id),
                                  cork, e),
              "reset_stream", <<id, cork>>, 0, e)

TransmitOne(level, e) ==
    /\ outq.rtx_count < MaxRtx
    /\ NFrames(Sk) < MaxFrames
    /\ \E s \in {quic_outq_transmit_one(Sk, level, e)} :
          Commit(s, "transmit_one", <<level>>, s.trace, e)

RetransmitList ==
    /\ outq.transmitted_list # <<>>
    /\ LET s == quic_outq_retransmit_list(Sk, "transmitted_list")
       IN Commit(s, "retransmit_list", <<>>, s.wfree, Quiet)

StreamPurge(id) ==
    LET s == quic_outq_stream_purge(Sk, id)
    IN Commit(s, "stream_purge", <<id>>, s.wfree, Quiet)

OutqFree ==
    \E s \in {quic_outq_free(Sk)} : Commit(s, "free", <<>>, s.wfree, Quiet)

(* the environment: keys, route, clock, the peer's credit *)
SendReady(level) ==
    /\ crypto' = [crypto EXCEPT ![level] = ~@]
    /\ op' = [NoOp EXCEPT !.name = "send_ready"]
    /\ UNCHANGED <<outq, streams, route_ok, pnmap, now, sock, work, tx>>

Route ==
    /\ route_ok' = ~route_ok
    /\ op' = [NoOp EXCEPT !.name = "route"]
    /\ UNCHANGED <<outq, streams, crypto, pnmap, now, sock, work, tx>>

Tick ==
    /\ now < MaxNow
    /\ now' = now + 1
    /\ op' = [NoOp EXCEPT !.name = "tick"]
    /\ UNCHANGED <<outq, streams, crypto, route_ok, pnmap, sock, work, tx>>

MaxStreamData(id, v) ==
    /\ v > streams[id].max_bytes
    /\ streams' = [streams EXCEPT ![id].max_bytes = v]
    /\ op' = [NoOp EXCEPT !.name = "max_stream_data"]
    /\ UNCHANGED <<outq, crypto, route_ok, pnmap, now, sock, work, tx>>

MaxData(v) ==
    /\ v > outq.max_bytes
    /\ outq' = [outq EXCEPT !.max_bytes = v]
    /\ op' = [NoOp EXCEPT !.name = "max_data"]
    /\ UNCHANGED <<streams, crypto, route_ok, pnmap, now, sock, work, tx>>

(* Control frames of the three levels: enqueue, transmit, loss *)
NextCtrl ==
    \/ \E level \in Levels, cork \in BOOLEAN : CtrlTail("PING", level, cork, Quiet)
    \/ Transmit(Quiet)
    \/ \E level \in Levels : RetransmitMark(level, TRUE, Quiet)
    \/ SendReady(QUIC_CRYPTO_HANDSHAKE)

SpecCtrl == InitWith(MaxCredit) /\ [][NextCtrl]_vars

(* Stream and datagram data of the App level: every way a frame enters and
   leaves transmitted_list *)
NextData ==
    \/ \E id \in StreamIds, n \in 0..MaxBytes, fin \in BOOLEAN, cork \in BOOLEAN :
          StreamTail(id, n, fin, cork, Quiet)
    \/ \E n \in 1..MaxBytes : DgramTail(n, TRUE, Quiet)
    \/ CtrlTail("PING", QUIC_CRYPTO_APP, TRUE, Quiet)
    \/ Transmit(Quiet)
    \/ \E largest \in 0..(MaxPn - 1), smallest \in 0..(MaxPn - 1) :
          TransmittedSack(QUIC_CRYPTO_APP, largest, smallest, Quiet)
    \/ \E immediate \in BOOLEAN : RetransmitMark(QUIC_CRYPTO_APP, immediate, Quiet)
    \/ RetransmitList
    \/ \E id \in StreamIds : StreamPurge(id)
    \/ Tick

SpecData == InitWith(MaxCredit) /\ [][NextData]_vars

(* The frames of a stream: enqueue, transmit, ack, loss *)
NextStream ==
    \/ \E id \in StreamIds, n \in 0..MaxBytes, fin \in BOOLEAN, cork \in BOOLEAN :
          StreamTail(id, n, fin, cork, Quiet)
    \/ Transmit(Quiet)
    \/ \E largest \in 0..(MaxPn - 1), smallest \in 0..(MaxPn - 1), ok \in BOOLEAN :
          TransmittedSack(QUIC_CRYPTO_APP, largest, smallest,
                          [Quiet EXCEPT !.event_ok = ok])
    \/ \E immediate \in BOOLEAN : RetransmitMark(QUIC_CRYPTO_APP, immediate, Quiet)
    \/ Tick

SpecStream == InitWith(MaxCredit) /\ [][NextStream]_vars

(* The flow-control gate: credit, blocked frames, allocation failure *)
NextFlow ==
    \/ \E id \in StreamIds, n \in 1..MaxBytes, cork \in BOOLEAN, e \in AllocEnv :
          StreamTail(id, n, FALSE, cork, e)
    \/ \E e \in AllocEnv : Transmit(e)
    \/ \E largest \in 0..(MaxPn - 1), w \in Windows :
          TransmittedSack(QUIC_CRYPTO_APP, largest, 0, [Quiet EXCEPT !.window = w])
    \/ \E id \in StreamIds : StreamPurge(id)
    \/ \E id \in StreamIds : MaxStreamData(id, MaxCredit)
    \/ MaxData(MaxCredit)
    \/ SendReady(QUIC_CRYPTO_APP)
    \/ Route

SpecFlow == InitWith(MinCredit) /\ [][NextFlow]_vars

----------------------------------------------------------------------------
(* The asynchronous path.  quic_outq_encrypted_tail() runs without the socket
   lock in any context; quic_outq_encrypted_work() is the work item.  Each line
   of the two functions is one step. *)
OutqVars == <<outq, streams, crypto, route_ok, pnmap, now, op, tx>>

(* schedule_work(): queues the work unless it is already queued; the return
   value tells which *)
schedule_work(w) ==
    [work |-> [w EXCEPT !.pending = TRUE], ret |-> ~w.pending]

(* sock_hold(sk) *)
TailHold(c) ==
    /\ work.tail[c] = "out"
    /\ work.queued + Cardinality({d \in Callers : work.tail[d] = "hold"}) < MaxSkb
    /\ sock' = [sock EXCEPT !.refcnt = @ + 1]
    /\ work' = [work EXCEPT !.tail[c] = "hold"]
    /\ UNCHANGED OutqVars

(* skb_queue_tail(&sk->sk_write_queue, skb) *)
TailQueue(c) ==
    /\ work.tail[c] = "hold"
    /\ sock' = [sock EXCEPT !.write_queue = Append(@, work.queued + 1)]
    /\ work' = [work EXCEPT !.tail[c] = "queued", !.queued = @ + 1]
    /\ UNCHANGED OutqVars

EncryptedTailPutMutant(scheduled) == FALSE

(* whether quic_outq_encrypted_tail() drops its reference itself *)
EncryptedTailPut(scheduled) == ~scheduled

(* if (!schedule_work(&outq->work)) sock_put(sk) *)
TailSchedule(c) ==
    /\ work.tail[c] = "queued"
    /\ LET r == schedule_work(work)
       IN /\ work' = [r.work EXCEPT !.tail[c] = "out"]
          /\ sock' = [sock EXCEPT !.refcnt = IF EncryptedTailPut(r.ret) THEN @ - 1
                                             ELSE @]
    /\ UNCHANGED OutqVars

(* the workqueue starts the queued work; one run of a work item at a time *)
WorkStart ==
    /\ work.pending /\ work.pc = "idle"
    /\ work' = [work EXCEPT !.pending = FALSE, !.pc = "lock"]
    /\ UNCHANGED <<sock, OutqVars>>

(* lock_sock(sk) *)
WorkLock ==
    /\ work.pc = "lock" /\ sock.lock = "free"
    /\ sock' = [sock EXCEPT !.lock = "worker"]
    /\ work' = [work EXCEPT !.pc = "dead"]
    /\ UNCHANGED OutqVars

(* if (sock_flag(sk, SOCK_DEAD)) { skb_queue_purge(head); goto out; } *)
WorkDead ==
    /\ work.pc = "dead"
    /\ IF sock.dead
       THEN /\ sock' = [sock EXCEPT !.write_queue = <<>>]
            /\ work' = [work EXCEPT !.pc = "release",
                          !.done = @ \o [i \in 1..Len(sock.write_queue) |->
                                           [skb |-> sock.write_queue[i],
                                            how |-> "purge", dead |-> sock.dead]]]
       ELSE /\ work' = [work EXCEPT !.pc = "dequeue"]
            /\ sock' = sock
    /\ UNCHANGED OutqVars

(* skb = skb_dequeue(head); while (skb) *)
WorkDequeue ==
    /\ work.pc = "dequeue"
    /\ IF sock.write_queue = <<>>
       THEN /\ work' = [work EXCEPT !.pc = "flush"]
            /\ sock' = sock
       ELSE /\ work' = [work EXCEPT !.pc = "xmit", !.skb = Head(sock.write_queue)]
            /\ sock' = [sock EXCEPT !.write_queue = Tail(@)]
    /\ UNCHANGED OutqVars

(* quic_packet_config(); quic_packet_xmit(sk, skb, 1) *)
WorkXmit ==
    /\ work.pc = "xmit"
    /\ work' = [work EXCEPT !.pc = "dequeue", !.skb = 0,
                  !.done = Append(@, [skb |-> work.skb, how |-> "xmit",
                                      dead |-> sock.dead])]
    /\ UNCHANGED <<sock, OutqVars>>

(* quic_packet_flush(sk) *)
WorkFlush ==
    /\ work.pc = "flush"
    /\ work' = [work EXCEPT !.pc = "release"]
    /\ UNCHANGED <<sock, OutqVars>>

(* release_sock(sk) *)
WorkRelease ==
    /\ work.pc = "release"
    /\ sock' = [sock EXCEPT !.lock = "free"]
    /\ work' = [work EXCEPT !.pc = "put"]
    /\ UNCHANGED OutqVars

(* sock_put(sk) *)
WorkPut ==
    /\ work.pc = "put"
    /\ sock' = [sock EXCEPT !.refcnt = @ - 1]
    /\ work' = [work EXCEPT !.pc = "idle"]
    /\ UNCHANGED OutqVars

(* another context takes and gives back the socket lock; closing the socket
   sets SOCK_DEAD under it *)
UserLock ==
    /\ sock.lock = "free"
    /\ sock' = [sock EXCEPT !.lock = "user"]
    /\ UNCHANGED <<work, OutqVars>>

UserClose ==
    /\ sock.lock = "user" /\ ~sock.dead
    /\ sock' = [sock EXCEPT !.dead = TRUE]
    /\ UNCHANGED <<work, OutqVars>>

UserUnlock ==
    /\ sock.lock = "user"
    /\ sock' = [sock EXCEPT !.lock = "free"]
    /\ UNCHANGED <<work, OutqVars>>

NextAsync ==
    \/ \E c \in Callers : TailHold(c)
    \/ \E c \in Callers : TailQueue(c)
    \/ \E c \in Callers : TailSchedule(c)
    \/ WorkStart
    \/ WorkLock
    \/ WorkDead
    \/ WorkDequeue
    \/ WorkXmit
    \/ WorkFlush
    \/ WorkRelease
    \/ WorkPut
    \/ UserLock
    \/ UserClose
    \/ UserUnlock

SpecAsync == InitWith(MaxCredit) /\ [][NextAsync]_vars

(* the gates of the stream phase: data and empty FIN frames, a datagram that
   keeps bytes in flight, time-based loss that shrinks the window, new credit *)
GateStreamTail(id, n, fin, cork, e) ==
    /\ NFrames(Sk) < MaxFrames
    /\ streams[id].state \in {"READY", "SEND"}
    /\ streams[id].offset + n <= MaxOffset
    /\ n = 0 => fin
    /\ LET frame == Frame(IF fin THEN "STREAM_FIN" ELSE "STREAM", outq.data_level,
                          n, streams[id].offset, id)
           s0 == [Sk EXCEPT !.stream[id].offset = @ + n]
       IN CommitUpTo(quic_outq_stream_tail(s0, frame, cork, e),
                     "stream_tail", <<id, n, fin, cork>>, 0, e, MaxPnGate)

GateDgramTail(n, cork, e) ==
    /\ NFrames(Sk) < MaxFrames
    /\ CommitUpTo(quic_outq_dgram_tail(Sk, Frame("DATAGRAM", outq.data_level, n, 0,
                                                 NoStream), cork, e),
                  "dgram_tail", <<n, cork>>, 0, e, MaxPnGate)

GateTransmit(e) ==
    LET r == quic_outq_transmit(Sk, e)
    IN CommitUpTo(r.s, "transmit", <<>>, r.ret, e, MaxPnGate)

GateRetransmitMark(level, immediate, e) ==
    LET s == quic_outq_retransmit_mark(Sk, level, immediate, e)
    IN CommitUpTo(s, "retransmit_mark", <<level, immediate>>, s.count, e, MaxPnGate)

NextGate ==
    \/ \E id \in StreamIds, n \in 0..MaxBytes, fin \in BOOLEAN :
          GateStreamTail(id, n, fin, TRUE, Quiet)
    \/ GateDgramTail(MaxDgram, TRUE, Quiet)
    \/ GateTransmit(Quiet)
    \/ \E w \in Windows :
          GateRetransmitMark(QUIC_CRYPTO_APP, FALSE, [Quiet EXCEPT !.window = w])
    \/ Tick
    \/ \E id \in StreamIds : MaxStreamData(id, MaxCredit)
    \/ MaxData(MaxCredit)

SpecGate == InitWith(MinCredit) /\ [][NextGate]_vars

(* path validation.  Frames are made for an alternative path; probes are
   counted; a PATH_RESPONSE with path_alt pa arrives for the local or the
   remote path *)
PathAlts == 0..(QUIC_PATH_ALT_SRC + QUIC_PATH_ALT_DST)

PathCtrlTail(type, pa, cork, e) ==
    /\ NFrames(Sk) < MaxFrames
    /\ Commit(quic_outq_ctrl_tail(Sk, [Frame(type, QUIC_CRYPTO_APP, 0, 0, NoStream)
                                          EXCEPT !.path_alt = pa], cork, e),
              "ctrl_tail", <<type, pa, cork>>, 0, e)

PathStreamTail(id, n, pa, e) ==
    /\ NFrames(Sk) < MaxFrames
    /\ streams[id].state \in {"READY", "SEND"}
    /\ streams[id].offset + n <= MaxOffset
    /\ Commit(quic_outq_stream_tail([Sk EXCEPT !.stream[id].offset = @ + n],
                                    [Frame("STREAM", outq.data_level, n,
                                           streams[id].offset, id)
                                        EXCEPT !.path_alt = pa],
                                    TRUE, e),
              "stream_tail", <<id, n, pa>>, 0, e)

PathProbe(local) ==
    /\ sock.path[IF local THEN "src" ELSE "dst"].sent_cnt < MaxSentCnt
    /\ sock' = [sock EXCEPT !.path[IF local THEN "src" ELSE "dst"].sent_cnt = @ + 1,
                            !.ecn_probes = 1]
    /\ op' = [NoOp EXCEPT !.name = "path_probe"]
    /\ UNCHANGED <<outq, streams, crypto, route_ok, pnmap, now, work, tx>>

ValidatePath(pa, local, e) ==
    \E r \in {quic_outq_validate_path(Sk, sock,
                                      [Frame("PATH_RESPONSE", QUIC_CRYPTO_APP, 0, 0,
                                             NoStream) EXCEPT !.path_alt = pa],
                                      local, e)} :
       /\ outq' = [f \in DOMAIN outq |-> r.s[f]]
       /\ sock' = r.sk
       /\ op' = [name |-> "validate_path", arg |-> <<pa, local>>,
                 ret |-> r.frame.path_alt, packed |-> <<>>, env |-> e,
                 ungated |-> FALSE, timers |-> r.s.timers, freed_read |-> FALSE]
       /\ UNCHANGED <<streams, crypto, route_ok, pnmap, now, work, tx>>

NextPath ==
    \/ \E pa \in PathAlts, cork \in BOOLEAN :
          PathCtrlTail("PATH_CHALLENGE", pa, cork, Quiet)
    \/ \E id \in StreamIds :
          PathStreamTail(id, MaxBytes, QUIC_PATH_ALT_SRC + QUIC_PATH_ALT_DST, Quiet)
    \/ \E local \in BOOLEAN : PathProbe(local)
    \/ \E pa \in PathAlts, local \in BOOLEAN, ok \in BOOLEAN :
          ValidatePath(pa, local, [Quiet EXCEPT !.event_ok = ok])

SpecPath == InitWith(MaxCredit) /\ [][NextPath]_vars

(* frames being freed: acknowledged, lost (a freed datagram leaves the value
   found at frame->bytes open), purged with their stream or with the queue *)
NextFree ==
    \/ \E id \in StreamIds, cork \in BOOLEAN :
          StreamTail(id, MaxBytes, FALSE, cork, Quiet)
    \/ \E cork \in BOOLEAN : DgramTail(MaxBytes, cork, Quiet)
    \/ \E largest \in 0..(MaxPn - 1) :
          TransmittedSack(QUIC_CRYPTO_APP, largest, 0, Quiet)
    \/ \E immediate \in BOOLEAN, fb \in BOOLEAN, w \in Windows :
          RetransmitMark(QUIC_CRYPTO_APP, immediate,
                         [Quiet EXCEPT !.freed_bytes = fb, !.window = w])
    \/ \E id \in StreamIds : StreamPurge(id)
    \/ OutqFree
    \/ Tick

SpecFree == InitWith(MaxCredit) /\ [][NextFree]_vars

(* quic_outq_transmit() one loop iteration at a time.  The caller holds the
   socket lock, so nothing else touches the queue until the call returns.
   tx.s is the socket as the call has left it so far, tx.s0 as it found it,
   tx.i the cursor of the running loop, tx.retried how often the frame at the
   cursor has been retried; while quic_outq_flow_control() runs the control
   loop, tx.back, tx.blocked and tx.saved keep the stream loop's cursor, the
   gate's answer and the stream frame's retries *)
TxVars == <<outq, streams, crypto, route_ok, pnmap, now, op, sock, work>>

TxBusy == tx.pc # "idle"

TxStart(e) ==
    /\ tx.pc = "idle"
    /\ \A l \in Levels :
          pnmap[l].next_number + Len(outq.control_list) + Len(outq.datagram_list)
             + Len(outq.stream_list) + 2 <= MaxPnTx
    /\ tx' = [pc |-> "ctrl", i |-> 1, back |-> 0, blocked |-> FALSE, saved |-> 0,
              retried |-> 0, last |-> "start", s |-> Sk, s0 |-> Sk, e |-> e]
    /\ UNCHANGED TxVars

(* the loop goes on with what the iteration r left, or is left for pc *)
TxAfter(r, pc) ==
    IF r.kind = "end"
    THEN [tx EXCEPT !.pc = pc, !.i = 1, !.s = r.s, !.last = "end", !.retried = 0]
    ELSE [tx EXCEPT !.i = r.i, !.s = r.s, !.last = r.kind,
                    !.retried = IF r.kind = "retry" THEN @ + 1 ELSE 0]

TxCtrl ==
    /\ tx.pc = "ctrl"
    /\ tx.retried < MaxRetry
    /\ \E r \in {transmit_ctrl_iter(tx.s, tx.i)} : tx' = TxAfter(r, EnterDgram(r.s))
    /\ UNCHANGED TxVars

TxDgram ==
    /\ tx.pc = "dgram"
    /\ tx.retried < MaxRetry
    /\ \E r \in {transmit_dgram_iter(tx.s, tx.i)} : tx' = TxAfter(r, EnterStream(r.s))
    /\ UNCHANGED TxVars

(* an iteration of the stream loop up to the return of the gate, or up to
   the call of quic_outq_transmit_ctrl() inside quic_outq_flow_control() *)
TxStream ==
    /\ tx.pc = "stream"
    /\ tx.retried < MaxRetry
    /\ IF tx.i > Len(tx.s.stream_list)
       THEN tx' = TxAfter(Iter(tx.s, tx.i, "end"), "flush")
       ELSE IF tx.s.data_level # 0
       THEN \E r \in {transmit_stream_iter(tx.s, tx.i, FALSE)} : tx' = TxAfter(r, "flush")
       ELSE \E g \in {flow_control_gate(tx.s, tx.s.stream_list[tx.i], tx.e)} :
               IF g.nframe
               THEN tx' = [tx EXCEPT !.pc = "gate_ctrl", !.back = tx.i, !.i = 1,
                                     !.blocked = g.ret, !.saved = tx.retried,
                                     !.retried = 0, !.s = g.s, !.last = "gate"]
               ELSE \E r \in {transmit_stream_iter(g.s, tx.i, g.ret)} :
                       tx' = TxAfter(r, "flush")
    /\ UNCHANGED TxVars

(* quic_outq_transmit_ctrl() called by quic_outq_flow_control() *)
TxGateCtrl ==
    /\ tx.pc = "gate_ctrl"
    /\ tx.retried < MaxRetry
    /\ \E r \in {transmit_ctrl_iter(tx.s, tx.i)} :
          tx' = IF r.kind = "end"
                THEN [tx EXCEPT !.pc = "stream_rest", !.i = tx.back, !.s = r.s,
                                !.last = "end", !.retried = tx.saved]
                ELSE TxAfter(r, "stream_rest")
    /\ UNCHANGED TxVars

(* the rest of the stream loop's iteration once the gate has returned *)
TxStreamRest ==
    /\ tx.pc = "stream_rest"
    /\ \E r \in {transmit_stream_iter(tx.s, tx.i, tx.blocked)} :
          tx' = IF r.kind = "end" THEN TxAfter(r, "flush")
                ELSE [TxAfter(r, "flush") EXCEPT !.pc = "stream"]
    /\ UNCHANGED TxVars

(* return quic_packet_flush(sk) *)
TxFlush ==
    /\ tx.pc = "flush"
    /\ \E r \in {quic_packet_flush(tx.s)} :
          CommitState(r.s, "transmit", <<>>, r.ret, tx.e, MaxPnTx)
    /\ tx' = TxIdle

TxRun == TxCtrl \/ TxDgram \/ TxStream \/ TxGateCtrl \/ TxStreamRest \/ TxFlush

NextTx ==
    \/ tx.pc = "idle" /\ \E level \in {QUIC_CRYPTO_APP, QUIC_CRYPTO_INITIAL} :
                            CtrlTail("PING", level, TRUE, Quiet)
    \/ tx.pc = "idle" /\ DgramTail(MaxBytes, TRUE, Quiet)
    \/ tx.pc = "idle" /\ \E id \in StreamIds : StreamTail(id, MaxBytes, FALSE, TRUE, Quiet)
    \/ tx.pc = "idle" /\ SendReady(QUIC_CRYPTO_APP)
    \/ tx.pc = "idle" /\ Route
    \/ \E e \in AllocEnv : TxStart(e)
    \/ TxCtrl
    \/ TxDgram
    \/ TxStream
    \/ TxGateCtrl
    \/ TxStreamRest
    \/ TxFlush

SpecTx == InitWith(MinCredit) /\ [][NextTx]_vars

(* the code of a call that has started is run to its end *)
SpecTxLive == SpecTx /\ WF_vars(TxRun)

(* loss detection: every packet carries one frame and only the newest packet
   is acknowledged, so that max_pn_acked can run ahead of a frame still in
   flight by the packet threshold; one PING of the Initial level stays around *)
LossCtrlTail(level, e) ==
    /\ NFrames(Sk) < MaxFrames
    /\ level # QUIC_CRYPTO_APP => pnmap[level].next_number = 0
    /\ CommitUpTo(quic_outq_ctrl_tail(Sk, Frame("PING", level, 0, 0, NoStream), FALSE, e),
                  "ctrl_tail", <<"PING", level, FALSE>>, 0, e, MaxPnLoss)

LossDgramTail(n, e) ==
    /\ NFrames(Sk) < MaxFrames
    /\ CommitUpTo(quic_outq_dgram_tail(Sk, Frame("DATAGRAM", outq.data_level, n, 0,
                                                 NoStream), FALSE, e),
                  "dgram_tail", <<n, FALSE>>, 0, e, MaxPnLoss)

LossSack(level, largest, smallest, e) ==
    /\ smallest <= largest
    /\ largest < pnmap[level].next_number
    /\ \E s \in {quic_outq_transmitted_sack(Sk, level, largest, smallest, e)} :
          CommitUpTo(s, "transmitted_sack", <<level, largest, smallest>>,
                     s.acked_bytes, e, MaxPnLoss)

LossRetransmitMark(level, immediate, e) ==
    \E s \in {quic_outq_retransmit_mark(Sk, level, immediate, e)} :
       CommitUpTo(s, "retransmit_mark", <<level, immediate>>, s.count, e, MaxPnLoss)

NextLoss ==
    \/ \E level \in {QUIC_CRYPTO_APP, QUIC_CRYPTO_INITIAL} : LossCtrlTail(level, Quiet)
    \/ LossDgramTail(MaxBytes, Quiet)
    \/ \E largest \in {pnmap[QUIC_CRYPTO_APP].next_number - 1} \cap Nat :
          LossSack(QUIC_CRYPTO_APP, largest, largest, Quiet)   \* the newest packet
    \/ LossRetransmitMark(QUIC_CRYPTO_APP, FALSE, Quiet)
    \/ Tick

SpecLoss == InitWith(MaxCredit) /\ [][NextLoss]_vars

(* the probe timeout: frames sent, lost by time or acknowledged, the route
   coming and going, and quic_outq_transmit_one() when a loss timer fires *)
NextPto ==
    \/ \E id \in StreamIds : StreamTail(id, MaxBytes, FALSE, TRUE, Quiet)
    \/ \E al \in BOOLEAN :
          TransmitOne(QUIC_CRYPTO_APP, [Quiet EXCEPT !.alloc_frame = al])
    \/ TransmitOne(QUIC_CRYPTO_INITIAL, Quiet)
    \/ \E largest \in 0..(MaxPn - 1) :
          TransmittedSack(QUIC_CRYPTO_APP, largest, 0, Quiet)
    \/ Tick
    \/ Route

SpecPto == InitWith(MaxCredit) /\ [][NextPto]_vars

(* acknowledgements: data, empty FIN, datagram, RESET_STREAM and PING frames
   sent by probe timeouts at two levels, ranges of packets acknowledged with
   the STREAM_UPDATE event queued or refused *)
NextSack ==
    \/ \E id \in StreamIds, n \in 0..MaxBytes, fin \in BOOLEAN :
          StreamTail(id, n, fin, TRUE, Quiet)
    \/ \E id \in StreamIds : ResetStream(id, TRUE, Quiet)
    \/ \E level \in {QUIC_CRYPTO_APP, QUIC_CRYPTO_INITIAL} : TransmitOne(level, Quiet)
    \/ \E largest \in 0..(MaxPn - 1), smallest \in 0..(MaxPn - 1), ok \in BOOLEAN :
          TransmittedSack(QUIC_CRYPTO_APP, largest, smallest,
                          [Quiet EXCEPT !.event_ok = ok])

SpecSack == InitWith(MaxCredit) /\ [][NextSack]_vars

(* closing the connection, and the enqueue functions before and after it *)
NextClose ==
    \/ \E errcode \in 0..1, level \in Levels, ok \in BOOLEAN, al \in BOOLEAN :
          TransmitClose("CONNECTION_CLOSE", errcode, level,
                        [Quiet EXCEPT !.event_ok = ok, !.alloc_frame = al])
    \/ \E id \in StreamIds, n \in 1..MaxBytes, cork \in BOOLEAN :
          StreamTail(id, n, FALSE, cork, Quiet)
    \/ DgramTail(MaxBytes, TRUE, Quiet)
    \/ \E cork \in BOOLEAN : CtrlTail("PING", QUIC_CRYPTO_APP, cork, Quiet)
    \/ Transmit(Quiet)

SpecClose == InitWith(MaxCredit) /\ [][NextClose]_vars

----------------------------------------------------------------------------
(* Properties *)
Range(list) == {list[i] : i \in 1..Len(list)}
AllFrames(q) == Range(q.control_list) \cup Range(q.stream_list)
                \cup Range(q.datagram_list) \cup Range(q.transmitted_list)
PendingFrames(q) == Range(q.control_list) \cup Range(q.stream_list)
                    \cup Range(q.datagram_list)
OfStream(list, id) == SelectSeq(list, LAMBDA f : f.stream = id)
OfType(list, type) == SelectSeq(list, LAMBDA f : f.type = type)
AllReady == \A l \in Levels : crypto[l]
(* every frame of a non-zero level stands before every frame of level 0 *)
LevelOrdered(levels) ==
    \A i, j \in 1..Len(levels) :
        (i < j /\ levels[i] = QUIC_CRYPTO_APP) => levels[j] = QUIC_CRYPTO_APP
LevelsOf(list) == [i \in 1..Len(list) |-> list[i].level]
OffsetsOf(list) == [i \in 1..Len(list) |-> list[i].offset]
Increasing(seq) == \A i, j \in 1..Len(seq) : i < j => seq[i] < seq[j]
DataFramesOf(id) == SelectSeq(outq.transmitted_list,
                              LAMBDA f : f.stream = id /\ f.bytes > 0)

(* C1: in every reachable state data_inflight is the sum of frame.bytes over
   the frames of transmitted_list. *)
C1_DataInflightIsSum ==
    outq.data_inflight = SumBytes(outq.transmitted_list)

(* an ack has freed payload bytes while other payload stays in flight *)
C1_Witness ==
    /\ op.name = "transmitted_sack" /\ op.ret > 0
    /\ outq.data_inflight > 0
    /\ \E f \in Range(outq.transmitted_list) : quic_frame_is_dgram(f.type)

(* C2: for every stream, send.frags is the number of frames of transmitted_list
   with that stream and bytes > 0. *)
C2_FragsIsCount ==
    \A id \in StreamIds : streams[id].frags = Len(DataFramesOf(id))

(* C3: with every level send-ready, a call packs the queued control frames in
   the order Initial, then Handshake, then App. *)
C3_InitialHandshakeApp ==
    (AllReady /\ op.packed # <<>>) =>
        \A i, j \in 1..Len(op.packed) :
            i < j =>
                /\ op.packed[i].level = QUIC_CRYPTO_APP
                       => op.packed[j].level = QUIC_CRYPTO_APP
                /\ op.packed[i].level = QUIC_CRYPTO_HANDSHAKE
                       => op.packed[j].level # QUIC_CRYPTO_INITIAL

(* C3 (amended): with every level send-ready, a call packs every Initial and
   Handshake frame before any App frame; Initial and Handshake frames are not
   ordered among themselves. *)
C3_HandshakeLevelsBeforeApp ==
    (AllReady /\ op.packed # <<>>) => LevelOrdered(LevelsOf(op.packed))

(* one transmit packed a Handshake frame, then an Initial frame, then an App
   frame *)
C3_Witness ==
    /\ AllReady
    /\ op.name = "transmit"
    /\ LevelsOf(op.packed) =
           <<QUIC_CRYPTO_HANDSHAKE, QUIC_CRYPTO_INITIAL, QUIC_CRYPTO_APP>>

(* C4: stream_purge(s) leaves no frame of stream s in control_list,
   stream_list, datagram_list or transmitted_list, and refunds the sum of
   frame.bytes over the frames it removed. *)
C4_PurgeLeavesNoFrame ==
    [][op'.name = "stream_purge" =>
          LET id == op'.arg[1] IN
          /\ \A f \in AllFrames(outq') : f.stream # id
          /\ op'.ret = SumBytes(OfStream(outq.transmitted_list, id))
                       + SumBytes(OfStream(outq.stream_list, id))]_vars

(* C5: retransmit_mark(L, immediate = 1) leaves no frame of level L in
   transmitted_list; the datagram frames among them are freed, the stream
   frames (zero-length ones too) are in stream_list, every other frame is in
   control_list, and data_inflight is lower by the sum of their bytes. *)
C5_ImmediateLoss ==
    [][(op'.name = "retransmit_mark" /\ op'.arg[2]) =>
          LET lost == SelectLevel(outq.transmitted_list, op'.arg[1])
              strm == SelectSeq(lost, LAMBDA f : quic_frame_is_stream(f.type))
              ctrl == SelectSeq(lost, LAMBDA f : ~quic_frame_is_stream(f.type)
                                                 /\ ~quic_frame_is_dgram(f.type))
          IN /\ SelectLevel(outq'.transmitted_list, op'.arg[1]) = <<>>
             /\ Len(outq'.datagram_list) = Len(outq.datagram_list)
             /\ Len(outq'.stream_list) = Len(outq.stream_list) + Len(strm)
             /\ Len(outq'.control_list) = Len(outq.control_list) + Len(ctrl)
             /\ Range(strm) \subseteq Range(outq'.stream_list)
             /\ Range(ctrl) \subseteq Range(outq'.control_list)
             /\ outq'.data_inflight = outq.data_inflight - SumBytes(lost)]_vars

(* C6: when the frames of one stream, transmitted in increasing offset order
   from offset 0, are all declared lost, they stand in stream_list in
   increasing offset order, and send.frags and send.bytes are lower by their
   number and by the sum of their bytes. *)
C6_LossKeepsOffsetOrder ==
    [][\A id \in StreamIds :
          (/\ op'.name = "retransmit_mark"
           /\ op'.arg[1] = QUIC_CRYPTO_APP
           /\ outq.stream_list = <<>>
           /\ outq.transmitted_list # <<>>
           /\ \A f \in Range(outq.transmitted_list) :
                  /\ quic_frame_is_stream(f.type) /\ f.bytes > 0
                  /\ f.stream = id /\ f.level = QUIC_CRYPTO_APP
           /\ Increasing(OffsetsOf(outq.transmitted_list))
           /\ outq.transmitted_list[1].offset = 0
           /\ op'.ret = Len(outq.transmitted_list)) =>
             /\ outq'.transmitted_list = <<>>
             /\ Range(outq'.stream_list) = Range(outq.transmitted_list)
             /\ Increasing(OffsetsOf(outq'.stream_list))
             /\ streams'[id].frags = streams[id].frags - Len(outq.transmitted_list)
             /\ outq'.bytes = outq.bytes - SumBytes(outq.transmitted_list)]_vars

(* C7: once every frame of a stream whose last frame carried FIN has been
   transmitted and acknowledged by accepted acks, data_inflight is 0, the
   stream is RECVD, and the ack has left outq.bytes as it was. *)
C7_RoundTrip ==
    [][(/\ op'.name = "transmitted_sack" /\ op'.env.event_ok
        /\ \E id \in StreamIds :
               /\ streams[id].state = "SENT"
               /\ \A f \in AllFrames(outq') : f.stream # id
               /\ \A f \in PendingFrames(outq) : f.stream # id
               /\ outq'.transmitted_list = <<>>) =>
          /\ outq'.data_inflight = 0
          /\ outq'.bytes = outq.bytes
          /\ \A id \in StreamIds :
                 streams[id].state = "SENT" => streams'[id].state = "RECVD"]_vars

(* C8: a stream frame enqueued uncorked at the App level that the stream's
   credit cannot take, while data_blocked is clear and last_max_bytes is below
   max_bytes, is still in stream_list on return, exactly one
   STREAM_DATA_BLOCKED frame of the stream is in control_list, data_blocked is
   set and last_max_bytes is max_bytes. *)
C8_Backpressure ==
    [][(/\ op'.name = "stream_tail" /\ ~op'.arg[4]
        /\ LET st == streams[op'.arg[1]] IN
               /\ st.bytes + op'.arg[2] > st.max_bytes
               /\ ~st.data_blocked
               /\ st.last_max_bytes < st.max_bytes) =>
          LET id == op'.arg[1] IN
          /\ Len(outq'.stream_list) = Len(outq.stream_list) + 1
          /\ Len(OfType(OfStream(outq'.control_list, id), "STREAM_DATA_BLOCKED")) = 1
          /\ streams'[id].data_blocked
          /\ streams'[id].last_max_bytes = streams'[id].max_bytes]_vars

(* C8 (amended): when in addition the App keys are send-ready, the frame is
   the only one in stream_list and the STREAM_DATA_BLOCKED frame can be
   created, the frame is still in stream_list on return, exactly one
   STREAM_DATA_BLOCKED frame of the stream is in control_list or (packed at
   once by the re-entered control phase) in transmitted_list, data_blocked is
   set and last_max_bytes is max_bytes. *)
C8_BackpressureAdvertised ==
    [][(/\ op'.name = "stream_tail" /\ ~op'.arg[4]
        /\ crypto[QUIC_CRYPTO_APP]
        /\ outq.stream_list = <<>>
        /\ op'.env.alloc_sdb
        /\ LET st == streams[op'.arg[1]] IN
               /\ st.bytes + op'.arg[2] > st.max_bytes
               /\ ~st.data_blocked
               /\ st.last_max_bytes < st.max_bytes) =>
          LET id == op'.arg[1] IN
          /\ Len(outq'.stream_list) = 1
          /\ outq'.stream_list[1].stream = id
          /\ Len(OfType(OfStream(outq'.control_list, id), "STREAM_DATA_BLOCKED"))
             + Len(OfType(OfStream(outq'.transmitted_list, id), "STREAM_DATA_BLOCKED")) = 1
          /\ streams'[id].data_blocked
          /\ streams'[id].last_max_bytes = streams'[id].max_bytes]_vars

(* an uncorked enqueue met the stream gate alone: the frame stayed and the
   STREAM_DATA_BLOCKED frame it caused went out in the same call *)
C8_Witness ==
    /\ op.name = "stream_tail" /\ ~op.arg[4]
    /\ op.packed = <<[type |-> "STREAM_DATA_BLOCKED", level |-> QUIC_CRYPTO_APP]>>
    /\ Len(outq.stream_list) = 1
    /\ streams[op.arg[1]].data_blocked
    /\ ~outq.data_blocked
    /\ Len(OfType(outq.transmitted_list, "STREAM_DATA_BLOCKED")) = 1

(* C9: in control_list and in transmitted_list every frame of a non-zero level
   (Initial, Handshake) stands before every App-level frame. *)
C9_LevelOrder ==
    /\ LevelOrdered(LevelsOf(outq.control_list))
    /\ LevelOrdered(LevelsOf(outq.transmitted_list))

(* an Initial frame was enqueued into a control_list that held an App frame
   and stands before it, while a Handshake frame is in flight *)
C9_Witness ==
    /\ op.name = "ctrl_tail" /\ op.arg[2] = QUIC_CRYPTO_INITIAL /\ op.arg[3]
    /\ LevelsOf(outq.control_list) = <<QUIC_CRYPTO_INITIAL, QUIC_CRYPTO_APP>>
    /\ LevelsOf(outq.transmitted_list) = <<QUIC_CRYPTO_HANDSHAKE>>

(* C10: a transmit that directly follows a transmit packs no frame, emits no
   packet, creates no DATA_BLOCKED or STREAM_DATA_BLOCKED frame and leaves
   every list and counter as it was. *)
C10_TransmitIdempotent ==
    [][(op.name = "transmit" /\ op'.name = "transmit") =>
          /\ op'.packed = <<>>
          /\ op'.ret = 0
          /\ outq' = outq
          /\ streams' = streams
          /\ pnmap' = pnmap]_vars

----------------------------------------------------------------------------
(* C11: once transmit_close has made the socket CLOSED, a call of stream_tail,
   dgram_tail or ctrl_tail adds no frame to a pending list and packs nothing *)
C11_ClosedTailIsNoOp ==
    [][(sock.state = "CLOSED"
        /\ op'.name \in {"stream_tail", "dgram_tail", "ctrl_tail"})
       => /\ outq'.control_list = outq.control_list
          /\ outq'.stream_list = outq.stream_list
          /\ outq'.datagram_list = outq.datagram_list
          /\ op'.packed = <<>>]_vars

----------------------------------------------------------------------------
(* references held by contexts that still owe a sock_put(): callers between
   sock_hold() and their schedule_work(), the queued work, the running work *)
RefsOwed ==
    Cardinality({c \in Callers : work.tail[c] \in {"hold", "queued"}})
    + (IF work.pending THEN 1 ELSE 0) + (IF work.pc # "idle" THEN 1 ELSE 0)

HandledSkbs == [i \in 1..Len(work.done) |-> work.done[i].skb]

InHand == IF work.pc = "xmit" THEN <<work.skb>> ELSE <<>>

(* C12: under every interleaving, the packets taken off sk_write_queue, the one
   the worker holds and the ones still queued are packets 1..queued in order
   (each handled once, FIFO); a packet is sent when the socket is alive and
   purged when it is dead; the worker is between lock_sock and release_sock
   whenever it touches the queue; the reference count is the base reference
   plus one per context that still owes a sock_put; nothing is left queued
   when no context is active *)
C12_AsyncDrain ==
    /\ HandledSkbs \o InHand \o sock.write_queue = [i \in 1..work.queued |-> i]
    /\ \A i \in 1..Len(work.done) :
          (work.done[i].how = "xmit") <=> ~work.done[i].dead
    /\ work.pc \in {"dead", "dequeue", "xmit", "flush", "release"}
          => sock.lock = "worker"
    /\ sock.refcnt = 1 + RefsOwed
    /\ (RefsOwed = 0) => sock.write_queue = <<>>

(* all packets were queued by interleaved callers, some were sent and, after
   the socket died, one was purged, and every reference is back *)
C12_Witness ==
    /\ work.queued = MaxSkb
    /\ Len(work.done) = MaxSkb
    /\ \E i, j \in 1..MaxSkb : work.done[i].how = "xmit" /\ work.done[j].how = "purge"
    /\ sock.refcnt = 1 /\ RefsOwed = 0

----------------------------------------------------------------------------
IsSuffix(a, b) ==
    Len(a) <= Len(b) /\ a = SubSeq(b, Len(b) - Len(a) + 1, Len(b))

(* C13: with credit never lowered, after every call no stream has sent more
   than its credit and the connection no more than its credit, every stream
   frame the call packed had data_inflight + bytes <= window when it was
   packed, and a transmit packs a leading part of stream_list only: the frame
   that fails a gate and every frame behind it stay where they are *)
C13_FlowControlSafety ==
    [][/\ \A id \in StreamIds : streams'[id].bytes <= streams'[id].max_bytes
       /\ outq'.bytes <= outq'.max_bytes
       /\ ~op'.ungated
       /\ op'.name = "transmit" => IsSuffix(outq'.stream_list, outq.stream_list)]_vars

----------------------------------------------------------------------------
(* the frames a SACK of <<level, largest, smallest>> covers *)
Sacked(f, arg) == f.level = arg[1] /\ arg[3] <= f.number /\ f.number <= arg[2]

SackedOf(list, arg) == SelectSeq(list, LAMBDA f : Sacked(f, arg))

(* C14: transmitted_sack with every event accepted removes from
   transmitted_list exactly the frames of the level numbered within
   [smallest, largest] and keeps the others in order, lowers data_inflight by
   their bytes and inflight by their len, returns their bytes, clears
   rtx_count, and a SENT stream whose frags reaches 0 becomes RECVD *)
C14_SackRemovesRange ==
    [][(op'.name = "transmitted_sack" /\ op'.env.event_ok) =>
          LET gone == SackedOf(outq.transmitted_list, op'.arg) IN
          /\ outq'.transmitted_list
                = SelectSeq(outq.transmitted_list, LAMBDA f : ~Sacked(f, op'.arg))
          /\ outq'.data_inflight = outq.data_inflight - SumBytes(gone)
          /\ outq'.inflight = outq.inflight - SumLen(gone)
          /\ op'.ret = SumBytes(gone)
          /\ outq'.rtx_count = 0
          /\ \A id \in StreamIds :
                (streams[id].state = "SENT" /\ streams[id].frags > 0
                 /\ streams'[id].frags = 0) => streams'[id].state = "RECVD"]_vars

(* a SACK of packet 1 only has freed the data frame of a stream that is now
   RECVD and left the frame of packet 0 in transmitted_list *)
C14_Witness ==
    /\ op.name = "transmitted_sack" /\ op.arg = <<QUIC_CRYPTO_APP, 1, 1>>
    /\ op.ret > 0
    /\ \E id \in StreamIds : streams[id].state = "RECVD"
    /\ \E i \in 1..Len(outq.transmitted_list) : outq.transmitted_list[i].number = 0

----------------------------------------------------------------------------
(* what the steps of the last quic_outq_transmit_one() answered *)
PingDue(t) ==
    /\ t[1][2] = 0
    /\ Len(t) >= 2
    /\ \/ t[2][2] = 0
       \/ Len(t) >= 3 /\ t[3][1] = "transmit" /\ t[3][2] = 0

PingMade(t) == \E i \in 1..Len(t) : t[i][1] = "ping"

PingsAt(q, level) ==
    Cardinality({i \in 1..Len(q.control_list) :
                    q.control_list[i].type = "PING" /\ q.control_list[i].level = level})
    + Cardinality({i \in 1..Len(q.transmitted_list) :
                    q.transmitted_list[i].type = "PING"
                    /\ q.transmitted_list[i].level = level})

(* C18 as stated: transmit_one(level) raises rtx_count by 1 and ends with a
   call to the level's loss timer; it makes a PING frame at the level exactly
   when the first transmit emitted no packet and retransmit_mark returned 0 or
   the second transmit emitted no packet either; rtx_count goes back to 0
   only in transmitted_sack *)
C18_ProbeTimeout ==
    [][/\ op'.name = "transmit_one" =>
            /\ outq'.rtx_count = outq.rtx_count + 1
            /\ op'.timers # <<>>
            /\ op'.timers[Len(op'.timers)].timer = op'.arg[1]
            /\ PingMade(op'.ret) <=> PingDue(op'.ret)
            /\ PingsAt(outq', op'.arg[1])
                  = PingsAt(outq, op'.arg[1]) + (IF PingMade(op'.ret) THEN 1 ELSE 0)
       /\ (outq.rtx_count # 0 /\ outq'.rtx_count = 0)
            => op'.name = "transmitted_sack"]_vars

(* C18 amended: the PING frame is made exactly when it is due and
   quic_frame_create() succeeds *)
C18_ProbeTimeoutIfAllocated ==
    [][/\ op'.name = "transmit_one" =>
            /\ outq'.rtx_count = outq.rtx_count + 1
            /\ op'.timers # <<>>
            /\ op'.timers[Len(op'.timers)].timer = op'.arg[1]
            /\ PingMade(op'.ret) <=> (PingDue(op'.ret) /\ op'.env.alloc_frame)
            /\ PingsAt(outq', op'.arg[1])
                  = PingsAt(outq, op'.arg[1]) + (IF PingMade(op'.ret) THEN 1 ELSE 0)
       /\ (outq.rtx_count # 0 /\ outq'.rtx_count = 0)
            => op'.name = "transmitted_sack"]_vars

(* the second probe timeout at App level found nothing to send, marked a frame
   lost, could not send it either and queued a PING frame *)
C18_Witness ==
    /\ op.name = "transmit_one"
    /\ outq.rtx_count = 2
    /\ op.ret = <<<<"transmit", 0>>, <<"mark", 1>>, <<"transmit", 0>>,
                  <<"ping", QUIC_CRYPTO_APP>>>>

----------------------------------------------------------------------------
(* the frames of list at the positions K, in order *)
RECURSIVE KeepAt(_, _, _)
KeepAt(list, K, i) ==
    IF i > Len(list) THEN <<>>
    ELSE (IF i \in K THEN <<list[i]>> ELSE <<>>) \o KeepAt(list, K, i + 1)

(* the acknowledged data frames of a stream *)
SackedData(list, arg, id) ==
    {j \in 1..Len(list) : Sacked(list[j], arg) /\ list[j].bytes # 0 /\ list[j].stream = id}

(* list[i] is acknowledged and needs a STREAM_UPDATE event: a RESET_STREAM
   frame, or the data frame the reverse walk visits last when the
   acknowledged data frames are all that a SENT stream has outstanding *)
SackNeedsEvent(list, st, arg, i) ==
    /\ Sacked(list[i], arg)
    /\ \/ list[i].type = "RESET_STREAM"
       \/ /\ list[i].bytes # 0
          /\ list[i].stream # NoStream
          /\ st[list[i].stream].state = "SENT"
          /\ Cardinality(SackedData(list, arg, list[i].stream)) = st[list[i].stream].frags
          /\ \A j \in SackedData(list, arg, list[i].stream) : i <= j

SackNeedingEvent(list, st, arg) ==
    {i \in 1..Len(list) : SackNeedsEvent(list, st, arg, i)}

SackFreed(list, st, arg) ==
    {i \in 1..Len(list) : Sacked(list[i], arg) /\ ~SackNeedsEvent(list, st, arg, i)}

(* C15, refusal: a transmitted_sack whose STREAM_UPDATE events are refused
   keeps every frame that needs one in transmitted_list, frees the other
   acknowledged frames, and leaves the stream's state, and frags, data_inflight
   and inflight as far as the kept frames go, as they were *)
C15_RefusedStep ==
    (op'.name = "transmitted_sack" /\ ~op'.env.event_ok) =>
        LET list == outq.transmitted_list
            freed == SackFreed(list, streams, op'.arg)
            gone == KeepAt(list, freed, 1)
        IN /\ outq'.transmitted_list = KeepAt(list, (1..Len(list)) \ freed, 1)
           /\ outq'.data_inflight = outq.data_inflight - SumBytes(gone)
           /\ outq'.inflight = outq.inflight - SumLen(gone)
           /\ \A id \in StreamIds :
                 /\ streams'[id].state = streams[id].state
                 /\ streams'[id].frags = streams[id].frags
                       - Cardinality(freed \cap SackedData(list, op'.arg, id))

(* C15, retry: the same SACK again, now with the events accepted, frees the
   frames the refused one kept and completes their streams' transitions *)
C15_RetryStep ==
    (/\ op.name = "transmitted_sack" /\ ~op.env.event_ok
     /\ op'.name = "transmitted_sack" /\ op'.env.event_ok /\ op'.arg = op.arg) =>
        LET list == outq.transmitted_list IN
        /\ \A i \in 1..Len(outq'.transmitted_list) : ~Sacked(outq'.transmitted_list[i], op'.arg)
        /\ \A i \in SackNeedingEvent(list, streams, op'.arg) :
              streams'[list[i].stream].state
                 = IF list[i].type = "RESET_STREAM" THEN "RESET_RECVD" ELSE "RECVD"

(* C15: a refused STREAM_UPDATE event leaves the frame and the counters as
   they were, and a later transmitted_sack of the same packet numbers with the
   event accepted frees the frame and makes the stream RECVD or RESET_RECVD *)
C15_EventRefusal == [][C15_RefusedStep /\ C15_RetryStep]_vars

(* the event of a SACK was refused: the acknowledged data frame, the last
   one its SENT stream has outstanding, is still in transmitted_list *)
C15_Witness ==
    /\ op.name = "transmitted_sack" /\ ~op.env.event_ok
    /\ \E j \in 1..Len(outq.transmitted_list) :
          /\ Sacked(outq.transmitted_list[j], op.arg)
          /\ outq.transmitted_list[j].bytes # 0
          /\ streams[outq.transmitted_list[j].stream].state = "SENT"
          /\ streams[outq.transmitted_list[j].stream].frags = 1

----------------------------------------------------------------------------
(* C16: a call in which the STREAM_DATA_BLOCKED frame (resp. the DATA_BLOCKED
   frame) cannot be allocated leaves data_blocked and last_max_bytes of every
   stream (resp. of the connection) as they were *)
C16_AllocFailureKeepsState ==
    [][(op'.name \in {"stream_tail", "transmit"}) =>
          /\ ~op'.env.alloc_sdb =>
                \A id \in StreamIds :
                   /\ streams'[id].data_blocked = streams[id].data_blocked
                   /\ streams'[id].last_max_bytes = streams[id].last_max_bytes
          /\ ~op'.env.alloc_db =>
                /\ outq'.data_blocked = outq.data_blocked
                /\ outq'.last_max_bytes = outq.last_max_bytes]_vars

----------------------------------------------------------------------------
(* the frame is lost at the level: by time, or by the packet threshold *)
FrameLost(f, level) ==
    \/ f.transmit_ts + CongRto <= now
    \/ f.number + 6 <= pnmap[level].max_pn_acked

(* positions of the level's frames of transmitted_list that are not lost, and
   of those in front of every such frame *)
NotLostAt(list, level) ==
    {i \in 1..Len(list) : list[i].level = level /\ ~FrameLost(list[i], level)}

LeadingLost(list, level) ==
    {i \in 1..Len(list) : list[i].level = level
                          /\ \A j \in NotLostAt(list, level) : i < j}

(* C17: retransmit_mark(L, immediate=0) removes from transmitted_list exactly
   the level-L frames in front of the first level-L frame that is not lost,
   sets loss_ts to that frame's transmit_ts + rto or to 0 when there is none,
   leaves the other levels alone, and returns the number of removed frames
   that went back to a pending list, freed datagrams not counted *)
C17_LeadingLostRun ==
    [][(op'.name = "retransmit_mark" /\ op'.arg[2] = FALSE) =>
          LET level == op'.arg[1]
              list == outq.transmitted_list
              lost == LeadingLost(list, level)
              kept == NotLostAt(list, level)
              back == {i \in lost : ~quic_frame_is_dgram(list[i].type)}
          IN /\ outq'.transmitted_list = KeepAt(list, (1..Len(list)) \ lost, 1)
             /\ pnmap'[level].loss_ts
                   = IF kept = {} THEN 0
                     ELSE list[CHOOSE i \in kept : \A j \in kept : i <= j].transmit_ts
                          + CongRto
             /\ \A l \in Levels \ {level} : pnmap'[l] = pnmap[l]
             /\ op'.ret = Cardinality(back)
             /\ Len(outq'.control_list) + Len(outq'.stream_list)
                   = Len(outq.control_list) + Len(outq.stream_list) + Cardinality(back)
             /\ outq'.datagram_list = outq.datagram_list]_vars

(* the packet threshold has acted: a frame sent at the present time is back
   on a pending list, and the walk stopped at a later frame not yet lost *)
C17_Witness ==
    /\ op.name = "retransmit_mark" /\ op.arg = <<QUIC_CRYPTO_APP, FALSE>>
    /\ op.ret = 1
    /\ pnmap[QUIC_CRYPTO_APP].max_pn_acked >= 6
    /\ pnmap[QUIC_CRYPTO_APP].loss_ts # 0
    /\ \E i \in 1..Len(outq.transmitted_list) :
          outq.transmitted_list[i].level = QUIC_CRYPTO_INITIAL

----------------------------------------------------------------------------
HasBit(pa, bit) == (pa \div bit) % 2 = 1

(* frame g is frame f with the bit cleared and nothing else changed *)
BitCleared(f, g, bit, other) ==
    /\ ~HasBit(g.path_alt, bit)
    /\ HasBit(g.path_alt, other) = HasBit(f.path_alt, other)
    /\ [g EXCEPT !.path_alt = 0] = [f EXCEPT !.path_alt = 0]

ListBitCleared(l, m, bit, other) ==
    /\ Len(m) = Len(l)
    /\ \A i \in 1..Len(l) : BitCleared(l[i], m[i], bit, other)

(* C19: when the CONNECTION_MIGRATION event is taken by the user,
   validate_path changes no frame, no path state and no timer; otherwise the
   bit of the validated direction (SRC when local, DST when remote) is cleared
   in every frame of control_list and transmitted_list and in the triggering
   frame, the other bit stays, the active path is swapped only when local, and
   the path timer is restarted at the probe timeout *)
C19_ValidatePath ==
    [][op'.name = "validate_path" =>
          IF ~op'.env.event_ok
          THEN /\ outq' = outq
               /\ sock' = sock
               /\ op'.timers = <<>>
               /\ op'.ret = op'.arg[1]
          ELSE LET local == op'.arg[2]
                   bit == IF local THEN QUIC_PATH_ALT_SRC ELSE QUIC_PATH_ALT_DST
                   other == IF local THEN QUIC_PATH_ALT_DST ELSE QUIC_PATH_ALT_SRC
               IN /\ ListBitCleared(outq.control_list, outq'.control_list, bit, other)
                  /\ ListBitCleared(outq.transmitted_list, outq'.transmitted_list,
                                    bit, other)
                  /\ ~HasBit(op'.ret, bit)
                  /\ HasBit(op'.ret, other) = HasBit(op'.arg[1], other)
                  /\ sock'.path.src.active
                        = IF local THEN 1 - sock.path.src.active
                          ELSE sock.path.src.active
                  /\ sock'.path.dst.active = sock.path.dst.active
                  /\ op'.timers # <<>>
                  /\ op'.timers[Len(op'.timers)]
                        = [timer |-> "PATH", call |-> "reset", timeout |-> ProbeTimeout]]_vars

(* the remote path was validated: the triggering frame and frames of
   control_list and transmitted_list that had both bits keep SRC only *)
C19_Witness ==
    /\ op.name = "validate_path" /\ op.env.event_ok
    /\ op.arg = <<QUIC_PATH_ALT_SRC + QUIC_PATH_ALT_DST, FALSE>>
    /\ op.ret = QUIC_PATH_ALT_SRC
    /\ \E i \in 1..Len(outq.control_list) :
          outq.control_list[i].path_alt = QUIC_PATH_ALT_SRC
    /\ \E i \in 1..Len(outq.transmitted_list) :
          outq.transmitted_list[i].path_alt = QUIC_PATH_ALT_SRC

----------------------------------------------------------------------------
(* C20: no operation reads a field of a frame it has freed *)
C20_NoUseAfterFree == ~op.freed_read

----------------------------------------------------------------------------
(* a retry comes after quic_packet_create() has emitted the packet, for a
   frame that has not been retried yet *)
TxRetryAfterFlush ==
    (TxBusy /\ tx'.pc # "idle" /\ tx'.last = "retry" /\ tx' # tx) =>
        /\ tx.retried = 0
        /\ tx'.s.packet.frames = <<>>
        /\ tx'.s.packet.count = tx.s.packet.count + 1

(* the call returns what the loops, run to their end, compute *)
TxResult ==
    (tx.pc = "flush" /\ tx'.pc = "idle") =>
        \E b \in {quic_outq_transmit(tx.s0, tx.e)} :
           /\ outq' = [f \in DOMAIN outq |-> b.s[f]]
           /\ streams' = b.s.stream
           /\ pnmap' = b.s.pnmap
           /\ op'.ret = b.ret

(* C21: every quic_outq_transmit() call returns; no frame is retried more
   than once, a retry follows the emission of the current packet, and every
   iteration packs, skips, retries or ends its loop, also in the control loop
   run from inside the flow-control gate *)
C21_TransmitTerminates ==
    /\ TxBusy ~> ~TxBusy
    /\ [](tx.retried <= 1)
    /\ [](TxBusy => tx.last \in {"start", "gate", "pack", "skip", "retry", "end"})
    /\ [][TxRetryAfterFlush /\ TxResult]_vars

(* the control loop run by the flow-control gate has emitted the full packet
   and goes back to the blocked frame it could not add *)
C21_Witness ==
    /\ tx.pc = "gate_ctrl"
    /\ tx.last = "retry"
    /\ tx.retried = 1

====
